---- MODULE Spec2Model ----
(***************************************************************************)
(* State-machine model of the two liquidation monitors of tbot-tradingboat *)
(*                                                                         *)
(*   IBPortfolioMonitor  (src/src/tbot_tradingboat/pnl_monitor.py)         *)
(*   SimplePnLStrategy   (src/src/tbot_tradingboat/mypnl.py)               *)
(*                                                                         *)
(* One run of one of the two scripts is a behaviour: prog says which.     *)
(* The broker gateway client (ib_insync) and the webhook are external:    *)
(* what they return or whether they raise is an input of the action that  *)
(* calls them.                                                             *)
(*                                                                         *)
(* Spec is the run of either script.  SpecPortfolio is the monitor's run   *)
(* with the portfolio updates that on_portfolio_update receives, and       *)
(* SpecHandlers the monitor's run with on_pnl_update called again after   *)
(* the call of line 171.                                                   *)
(*                                                                         *)
(* Units.  Money is kept in integers.  The monitor's equity readings are  *)
(* whole dollars and its loss_threshold, which the code compares with a   *)
(* percentage, is kept in hundredths of a percent (-0.05 is -5).  The     *)
(* strategy's account_balance is whole dollars, its dailyPnL readings and *)
(* its loss_threshold are cents.                                          *)
(***************************************************************************)
EXTENDS Integers, Sequences, FiniteSets, TLC

VARIABLES
    prog,               \* which script runs: "monitor" or "strategy"
    pc,                 \* position of run()
    connected,          \* the gateway session is up
    positions,          \* what ib.positions() returns: Seq of [symbol, position]
    positionsEnd,       \* the gateway has delivered the position snapshot completely once
    handlers,           \* the subscriptions made with  ib.<event> += <handler>
    beginning_balance,  \* IBPortfolioMonitor.beginning_balance (None or Some(dollars))
    action_taken,       \* IBPortfolioMonitor.action_taken
    loss_threshold,     \* self.loss_threshold (monitor: 1/100 percent; strategy: cents)
    account_balance,    \* SimplePnLStrategy.account_balance (dollars)
    pnl,                \* SimplePnLStrategy.pnl (None or Some(reading))
    calls,              \* history: the calls made on the gateway and the policy, in order
    liquidations,       \* history: one record per entry of a position-closing loop
    pnlEvents,          \* history: PnL events delivered to a subscribed handler
    connectFailed,      \* history: ib.connect raised
    gateSeen,           \* history: a position or an account-summary value has been received
    earlyEval,          \* history: the policy ran, or a closing loop started, before readiness
    evaluations,        \* history: one record per percentage evaluation of on_pnl_update
    interrupted,        \* history: a KeyboardInterrupt reached run()
    portfolio_items,    \* IBPortfolioMonitor.portfolio_items: symbol -> item
    total_unrealized_pnl,  \* IBPortfolioMonitor.total_unrealized_pnl
    total_realized_pnl, \* IBPortfolioMonitor.total_realized_pnl
    total_market_value, \* IBPortfolioMonitor.total_market_value
    lastUpdate,         \* history: contract identifier -> the item of its most recent portfolio update
    portfolioUpdates,   \* history: portfolio updates delivered to on_portfolio_update
    furtherCalls        \* history: calls of on_pnl_update() after the one of line 171

vars == <<prog, pc, connected, positions, positionsEnd, handlers, beginning_balance,
          action_taken, loss_threshold, account_balance, pnl, calls, liquidations,
          pnlEvents, connectFailed, gateSeen, earlyEval,
          evaluations, interrupted, portfolio_items, total_unrealized_pnl,
          total_realized_pnl, total_market_value, lastUpdate, portfolioUpdates,
          furtherCalls>>

\* What on_portfolio_update writes, and the history kept of it.
portfolioVars == <<portfolio_items, total_unrealized_pnl, total_realized_pnl,
                   total_market_value, lastUpdate, portfolioUpdates>>

-----------------------------------------------------------------------------
(* Optional values: Python's None, and a float that may be nan.            *)

None == <<>>

Some(x) == <<x>>

Val(o) == o[1]

NaN == <<>>

\* A Python dict: the empty one, and  d[k] = v.
EmptyMap == [k \in {} |-> 0]

Put(d, k, v) == [x \in DOMAIN d \cup {k} |-> IF x = k THEN v ELSE d[x]]

-----------------------------------------------------------------------------
(* Bounds and the sets the inputs are drawn from.                          *)

MaxPnlEvents == 2

MaxPortfolioUpdates == 3

MaxFurtherCalls == 1

Symbols == {"AAPL", "MSFT", "TSLA"}

Quantities == {-50, 0, 100}

\* NetLiquidation values of the account summary, in dollars.
NetLiqValues == {9500, 9990, 10000}

NetLiqReads == {None} \cup {Some(v) : v \in NetLiqValues}

\* Whole position lists, as the gateway sends them after the connection.
PositionSnapshots ==
    {<<>>,
     <<[symbol |-> "AAPL", position |-> 100]>>,
     <<[symbol |-> "AAPL", position |-> 100], [symbol |-> "MSFT", position |-> -50],
       [symbol |-> "TSLA", position |-> 0]>>}

\* Contracts of the account: the gateway identifies a contract by its conId;
\* a stock and an option on it carry the same symbol.
Contracts == {[conId |-> 1, symbol |-> "AAPL"], [conId |-> 2, symbol |-> "AAPL"],
              [conId |-> 3, symbol |-> "MSFT"]}

\* The PortfolioItem objects the gateway delivers with updatePortfolioEvent.
PortfolioItems ==
    {[contract |-> c, position |-> 100, marketPrice |-> 11, marketValue |-> 1100,
      averageCost |-> 10, unrealizedPNL |-> 100, realizedPNL |-> 0] : c \in Contracts}
    \cup
    {[contract |-> c, position |-> -50, marketPrice |-> 21, marketValue |-> -1050,
      averageCost |-> 22, unrealizedPNL |-> 50, realizedPNL |-> 5] : c \in Contracts}

\* account_balance values given to SimplePnLStrategy, in dollars.
Balances == {100, 30000}

\* dailyPnL values of a PnL event, in cents, and nan.
DailyPnLs == {-30001, -30000, -29999, -101, -100, -99, 0}

Readings == [dailyPnL : {NaN} \cup {Some(v) : v \in DailyPnLs}]

\* PNL_THRESHOLD as the environment can set it, in hundredths of a percent.
PNL_THRESHOLD == -5

Thresholds == {PNL_THRESHOLD, 0}

-----------------------------------------------------------------------------
(* Pure helpers.                                                            *)

Abs(n) == IF n < 0 THEN -n ELSE n

RECURSIVE Count(_, _)
Count(s, x) ==
    IF s = <<>> THEN 0
    ELSE (IF s[1] = x THEN 1 ELSE 0) + Count(Tail(s), x)

IndexOf(snap, sym) ==
    IF \E i \in 1..Len(snap) : snap[i].symbol = sym
    THEN CHOOSE i \in 1..Len(snap) : snap[i].symbol = sym
    ELSE 0

\* The client's position list after an update for one contract: the entry
\* is replaced in place, or appended when the contract is new.
Upsert(snap, sym, qty) ==
    LET i == IndexOf(snap, sym) IN
    IF i = 0 THEN Append(snap, [symbol |-> sym, position |-> qty])
    ELSE [snap EXCEPT ![i] = [symbol |-> sym, position |-> qty]]

-----------------------------------------------------------------------------
(* Threshold policies.                                                      *)

\* SimplePnLStrategy.__init__: loss_threshold = -0.01 * account_balance.
\* The balance is dollars, the result is cents.
LossThresholdCents(balance) == (-1 * (balance * 100)) \div 100

\* SimplePnLStrategy.check_loss_threshold: self.pnl is set, and
\* dailyPnL <= loss_threshold (a comparison with nan is false).
check_loss_threshold_strict(p, thr) ==
    /\ p # None
    /\ Val(p).dailyPnL # NaN
    /\ Val(Val(p).dailyPnL) < thr

check_loss_threshold(p, thr) ==
    /\ p # None
    /\ Val(p).dailyPnL # NaN
    /\ Val(Val(p).dailyPnL) <= thr

\* IBPortfolioMonitor.on_pnl_update, lines 87 and 89:
\*   percentage_change = (current - beginning) / beginning * 100
\*   percentage_change <= self.loss_threshold
\* with thr in hundredths of a percent; beginning is not 0 here.
PercentageBreached(current, beginning, thr) ==
    IF beginning > 0
    THEN (current - beginning) * 10000 <= thr * beginning
    ELSE (current - beginning) * 10000 >= thr * beginning

-----------------------------------------------------------------------------
(* The position-closing loops.                                              *)

OrderFor(p) ==
    [kind |-> "order", symbol |-> p.symbol,
     action |-> IF p.position > 0 THEN "SELL" ELSE "BUY",
     totalQuantity |-> Abs(p.position), orderType |-> "MKT"]

\* IBPortfolioMonitor.close_positions over snap[i..]: a position of size 0
\* is skipped, every other one gets a market order; placeOrder raising at
\* position failAt ends the loop (nothing catches it inside the loop).
RECURSIVE ClosePositionsFrom(_, _, _)
ClosePositionsFrom(snap, i, failAt) ==
    IF i > Len(snap) THEN [attempts |-> <<>>, raised |-> FALSE]
    ELSE IF snap[i].position = 0 THEN ClosePositionsFrom(snap, i + 1, failAt)
    ELSE IF i = failAt
         THEN [attempts |-> << [order |-> OrderFor(snap[i]), ok |-> FALSE] >>,
               raised |-> TRUE]
         ELSE LET rest == ClosePositionsFrom(snap, i + 1, failAt) IN
              [attempts |-> << [order |-> OrderFor(snap[i]), ok |-> TRUE] >>
                            \o rest.attempts,
               raised |-> rest.raised]

close_positions(snap, failAt) == ClosePositionsFrom(snap, 1, failAt)

\* SimplePnLStrategy.close_all_positions over snap[i..]: one POST of a
\* close_all payload per position of the list, whatever its size; a POST
\* that raises (the positions in failed) is caught and the loop goes on.
RECURSIVE CloseAllFrom(_, _, _)
CloseAllFrom(snap, i, failed) ==
    IF i > Len(snap) THEN <<>>
    ELSE << [order |-> [kind |-> "webhook", symbol |-> snap[i].symbol,
                        action |-> "strategy.close_all",
                        position |-> snap[i].position],
             ok |-> i \notin failed] >>
         \o CloseAllFrom(snap, i + 1, failed)

close_all_positions(snap, failed) ==
    [attempts |-> CloseAllFrom(snap, 1, failed), raised |-> FALSE]

\* The history record of one run of a closing loop.
Liquidation(snap, r) ==
    [snapshot |-> snap, attempts |-> r.attempts, raised |-> r.raised]

\* The calls one closing loop makes: the position query, then one
\* placeOrder or POST per attempt.
LoopCalls(r, what) == <<"positions">> \o [k \in 1..Len(r.attempts) |-> what]

-----------------------------------------------------------------------------
(* IBPortfolioMonitor: the handlers as functions of their inputs.          *)
(* A result is [beginning_balance, action_taken, calls, liquidations,     *)
(* evaluations, raised]; raised means an exception left the handler, and  *)
(* evaluations holds one record per percentage_change computed.           *)

\* fetch_net_liquidation (lines 37-47) returning nl: the account-summary
\* query, and the search for the USD NetLiquidation item finding none when
\* nl is None.
fetch_net_liquidation(nl) ==
    IF nl = None THEN <<"accountSummary", "noNetLiquidation">>
    ELSE <<"accountSummary">>

\* To compare with: fetch_beginning_balance without the test of line 52.
fetch_beginning_balance_unchecked(at, snap, nl, failAt) ==
    LET r == close_positions(snap, failAt) IN
    [beginning_balance |-> nl,
     action_taken |-> IF r.raised THEN at ELSE TRUE,
     calls |-> fetch_net_liquidation(nl) \o LoopCalls(r, "placeOrder"),
     liquidations |-> << Liquidation(snap, r) >>,
     evaluations |-> <<>>, raised |-> r.raised]

\* fetch_beginning_balance (lines 49-56) with nl the value that
\* fetch_net_liquidation returns.
fetch_beginning_balance(at, snap, nl, failAt) ==
    IF nl # None
    THEN LET r == close_positions(snap, failAt) IN
         [beginning_balance |-> nl,
          action_taken |-> IF r.raised THEN at ELSE TRUE,
          calls |-> fetch_net_liquidation(nl) \o LoopCalls(r, "placeOrder"),
          liquidations |-> << Liquidation(snap, r) >>,
          evaluations |-> <<>>, raised |-> r.raised]
    ELSE [beginning_balance |-> nl, action_taken |-> at,
          calls |-> fetch_net_liquidation(nl), liquidations |-> <<>>,
          evaluations |-> <<>>, raised |-> FALSE]

\* The record of one evaluation of lines 88-92: the two equity values the
\* percentage is computed from and the outcome of the comparison.
Evaluation(cur, beg, thr) ==
    [current |-> cur, beginning |-> beg, loss_threshold |-> thr,
     breached |-> PercentageBreached(cur, beg, thr)]

\* The guard of line 82, and, to compare with, a guard that lets every call
\* fetch the baseline.
always_fetch(bb) == TRUE

beginning_balance_is_None(bb) == bb = None

\* on_pnl_update (lines 81-95).  nl1 and nl2 are what the two calls of
\* fetch_net_liquidation return, f1 and f2 where placeOrder raises in the
\* two closing loops (0: nowhere).
on_pnl_update(bb, at, thr, snap, nl1, nl2, f1, f2) ==
    LET fb == IF beginning_balance_is_None(bb)
              THEN fetch_beginning_balance(at, snap, nl1, f1)
              ELSE [beginning_balance |-> bb, action_taken |-> at,
                    calls |-> <<>>, liquidations |-> <<>>,
                    evaluations |-> <<>>, raised |-> FALSE]
        calls2 == fb.calls \o fetch_net_liquidation(nl2)
        ev == << Evaluation(Val(nl2), Val(fb.beginning_balance), thr) >>
    IN  IF fb.raised THEN fb
        ELSE IF nl2 # None /\ fb.beginning_balance # None
        THEN IF Val(fb.beginning_balance) = 0
             THEN [fb EXCEPT !.calls = calls2, !.raised = TRUE]  \* ZeroDivisionError
             ELSE IF PercentageBreached(Val(nl2), Val(fb.beginning_balance), thr)
             THEN LET r == close_positions(snap, f2) IN
                  [beginning_balance |-> fb.beginning_balance,
                   action_taken |-> IF r.raised THEN fb.action_taken ELSE TRUE,
                   calls |-> calls2 \o <<"evaluate", "breach">>
                             \o LoopCalls(r, "placeOrder"),
                   liquidations |-> fb.liquidations \o << Liquidation(snap, r) >>,
                   evaluations |-> ev, raised |-> r.raised]
             ELSE [fb EXCEPT !.calls = calls2 \o <<"evaluate">>, !.evaluations = ev]
        ELSE [fb EXCEPT !.calls = calls2]

-----------------------------------------------------------------------------
(* Initial state: the object after __init__, before run().                 *)

AppendOnce(s, x) == IF s # <<>> /\ s[Len(s)] = x THEN s ELSE Append(s, x)

Init ==
    /\ prog \in {"monitor", "strategy"}
    /\ pc = "connect"
    /\ connected = FALSE
    /\ positions = <<>>
    /\ positionsEnd = FALSE
    /\ handlers = {}
    /\ beginning_balance = None
    /\ action_taken = FALSE
    /\ \E b \in Balances, t \in Thresholds :
          IF prog = "monitor"
          THEN account_balance = None /\ loss_threshold = t
          ELSE account_balance = Some(b) /\ loss_threshold = LossThresholdCents(b)
    /\ pnl = None
    /\ calls = <<>>
    /\ liquidations = <<>>
    /\ pnlEvents = 0
    /\ connectFailed = FALSE
    /\ gateSeen = FALSE
    /\ earlyEval = FALSE
    /\ evaluations = <<>>
    /\ interrupted = FALSE
    /\ portfolio_items = EmptyMap
    /\ total_unrealized_pnl = 0
    /\ total_realized_pnl = 0
    /\ total_market_value = 0
    /\ lastUpdate = EmptyMap
    /\ portfolioUpdates = 0
    /\ furtherCalls = 0

Ready == positionsEnd /\ gateSeen

-----------------------------------------------------------------------------
(* The gateway: position updates reach the client while the session is up. *)
(* The list is followed for as long as a closing loop or the wait for the  *)
(* first position can still read it: after line 171 the monitor only       *)
(* prints it.                                                              *)

GatewayPositionUpdate ==
    /\ connected
    /\ pc \notin {"m_subscribe", "m_ib_run"}
    /\ \E sym \in Symbols, qty \in Quantities :
          positions' = Upsert(positions, sym, qty)
    /\ gateSeen' = TRUE
    /\ UNCHANGED <<prog, pc, connected, positionsEnd, handlers, beginning_balance,
                   action_taken, loss_threshold, account_balance, pnl, calls,
                   liquidations, pnlEvents, connectFailed, earlyEval,
                   evaluations, interrupted, portfolioVars, furtherCalls>>

GatewayPositionEnd ==
    /\ connected
    /\ ~positionsEnd
    /\ positionsEnd' = TRUE
    /\ UNCHANGED <<prog, pc, connected, positions, handlers, beginning_balance,
                   action_taken, loss_threshold, account_balance, pnl, calls,
                   liquidations, pnlEvents, connectFailed, gateSeen, earlyEval,
                   evaluations, interrupted, portfolioVars, furtherCalls>>

\* The position list arrives whole, end marker included: what the client
\* holds once the synchronisation that follows the connection is over.
GatewayPositionSnapshot ==
    /\ connected
    /\ ~positionsEnd
    /\ pc \notin {"m_subscribe", "m_ib_run"}
    /\ \E snap \in PositionSnapshots : positions' = snap
    /\ positionsEnd' = TRUE
    /\ gateSeen' = TRUE
    /\ UNCHANGED <<prog, pc, connected, handlers, beginning_balance,
                   action_taken, loss_threshold, account_balance, pnl, calls,
                   liquidations, pnlEvents, connectFailed, earlyEval,
                   evaluations, interrupted, portfolioVars, furtherCalls>>

-----------------------------------------------------------------------------
(* IBPortfolioMonitor.run, step by step.                                   *)

\* Line 163, connect(): ib.connect raising is printed and raised again, run
\* prints it in  except Exception  and disconnects in  finally.
MonitorConnect ==
    /\ prog = "monitor"
    /\ pc = "connect"
    /\ \E ok \in BOOLEAN :
          /\ connected' = ok
          /\ connectFailed' = ~ok
          /\ calls' = IF ok THEN calls \o <<"connect">>
                      ELSE calls \o <<"connect", "disconnect">>
          /\ pc' = IF ok THEN "m_setup" ELSE "done"
    /\ UNCHANGED <<prog, positions, positionsEnd, handlers, beginning_balance,
                   action_taken, loss_threshold, account_balance, pnl,
                   liquidations, pnlEvents, gateSeen, earlyEval,
                   evaluations, interrupted, portfolioVars, furtherCalls>>

\* Lines 165-170: portfolio(), positions(), setup_portfolio_handlers().
MonitorSetup ==
    /\ prog = "monitor"
    /\ pc = "m_setup"
    /\ calls' = calls \o <<"portfolio", "positions", "subscribe">>
    /\ handlers' = handlers \cup {"updatePortfolioEvent:on_portfolio_update"}
    /\ pc' = "m_on_pnl_update"
    /\ UNCHANGED <<prog, connected, positions, positionsEnd, beginning_balance,
                   action_taken, loss_threshold, account_balance, pnl,
                   liquidations, pnlEvents, connectFailed, gateSeen, earlyEval,
                   evaluations, interrupted, portfolioVars, furtherCalls>>

\* Line 171: the one call of on_pnl_update().  An exception leaving it is
\* printed by run, which disconnects in  finally.
MonitorOnPnlUpdate ==
    /\ prog = "monitor"
    /\ pc = "m_on_pnl_update"
    /\ \E nl1 \in NetLiqReads, nl2 \in NetLiqReads,
          f1 \in 0..Len(positions), f2 \in 0..Len(positions) :
          LET r == on_pnl_update(beginning_balance, action_taken, loss_threshold,
                                 positions, nl1, nl2, f1, f2)
              seen == gateSeen \/ (beginning_balance = None /\ nl1 # None)
                               \/ nl2 # None
          IN  /\ beginning_balance' = r.beginning_balance
              /\ action_taken' = r.action_taken
              /\ liquidations' = liquidations \o r.liquidations
              /\ evaluations' = evaluations \o r.evaluations
              /\ calls' = IF r.raised THEN calls \o r.calls \o <<"disconnect">>
                          ELSE calls \o r.calls
              /\ connected' = IF r.raised THEN FALSE ELSE connected
              /\ pc' = IF r.raised THEN "done" ELSE "m_subscribe"
              /\ gateSeen' = seen
              /\ earlyEval' = (earlyEval \/
                     ((Count(r.calls, "evaluate") > 0 \/ r.liquidations # <<>>)
                       /\ ~(positionsEnd /\ seen)))
    /\ UNCHANGED <<prog, positions, positionsEnd, handlers, loss_threshold,
                   account_balance, pnl, pnlEvents, connectFailed, interrupted,
                   portfolioVars, furtherCalls>>

\* on_pnl_update() called again on the object while ib.run() serves events:
\* the method is written as the handler of the equity updates (lines 82-83
\* fetch the baseline only while it is None), and run() calls it once.  A
\* run in which it is called for each update is a run of this action.
MonitorOnPnlUpdateAgain ==
    /\ prog = "monitor"
    /\ pc = "m_ib_run"
    /\ connected
    /\ furtherCalls < MaxFurtherCalls
    /\ \E nl1 \in NetLiqReads, nl2 \in NetLiqReads,
          f1 \in 0..Len(positions), f2 \in 0..Len(positions) :
          LET r == on_pnl_update(beginning_balance, action_taken, loss_threshold,
                                 positions, nl1, nl2, f1, f2)
              seen == gateSeen \/ (beginning_balance = None /\ nl1 # None)
                               \/ nl2 # None
          IN  /\ beginning_balance' = r.beginning_balance
              /\ action_taken' = r.action_taken
              /\ liquidations' = liquidations \o r.liquidations
              /\ evaluations' = evaluations \o r.evaluations
              /\ calls' = IF r.raised THEN calls \o r.calls \o <<"disconnect">>
                          ELSE calls \o r.calls
              /\ connected' = IF r.raised THEN FALSE ELSE connected
              /\ pc' = IF r.raised THEN "done" ELSE pc
              /\ gateSeen' = seen
              /\ earlyEval' = (earlyEval \/
                     ((Count(r.calls, "evaluate") > 0 \/ r.liquidations # <<>>)
                       /\ ~(positionsEnd /\ seen)))
    /\ furtherCalls' = furtherCalls + 1
    /\ UNCHANGED <<prog, positions, positionsEnd, handlers, loss_threshold,
                   account_balance, pnl, pnlEvents, connectFailed, interrupted,
                   portfolioVars>>

\* Lines 172-175: get_positions_event(), get_positions(), pnl_update(account)
\* twice; pnl_update subscribes itself to pnlEvent and queries ib.pnl.
MonitorSubscribe ==
    /\ prog = "monitor"
    /\ pc = "m_subscribe"
    /\ calls' = calls \o <<"subscribe", "positions", "subscribe", "subscribe">>
    /\ handlers' = handlers \cup {"positionEvent:get_positions", "pnlEvent:pnl_update"}
    /\ pc' = "m_ib_run"
    /\ UNCHANGED <<prog, connected, positions, positionsEnd, beginning_balance,
                   action_taken, loss_threshold, account_balance, pnl,
                   liquidations, pnlEvents, connectFailed, gateSeen, earlyEval,
                   evaluations, interrupted, portfolioVars, furtherCalls>>

\* Line 183, ib.run(): a PnL event is delivered to pnl_update (lines 32-35),
\* which subscribes itself again, logs and returns ib.pnl(account).
MonitorPnlEvent ==
    /\ prog = "monitor"
    /\ pc = "m_ib_run"
    /\ connected
    /\ "pnlEvent:pnl_update" \in handlers
    /\ pnlEvents < MaxPnlEvents
    /\ pnlEvents' = pnlEvents + 1
    /\ handlers' = handlers \cup {"pnlEvent:pnl_update"}
    /\ calls' = calls \o <<"subscribe">>
    /\ UNCHANGED <<prog, pc, connected, positions, positionsEnd, beginning_balance,
                   action_taken, loss_threshold, account_balance, pnl,
                   liquidations, connectFailed, gateSeen, earlyEval,
                   evaluations, interrupted, portfolioVars, furtherCalls>>

\* on_portfolio_update (lines 60-76): the entry stored for a PortfolioItem
\* (lines 63-70) and the dict after the assignment of line 63, whose key is
\* contract.symbol.
PortfolioEntry(portfolio_item) ==
    [position |-> portfolio_item.position,
     market_price |-> portfolio_item.marketPrice,
     market_value |-> portfolio_item.marketValue,
     average_cost |-> portfolio_item.averageCost,
     unrealized_pnl |-> portfolio_item.unrealizedPNL,
     realized_pnl |-> portfolio_item.realizedPNL]

on_portfolio_update(items, portfolio_item) ==
    Put(items, portfolio_item.contract.symbol, PortfolioEntry(portfolio_item))

\* sum(item[field] for item in d.values())
RECURSIVE SumOver(_, _, _)
SumOver(d, keys, field) ==
    IF keys = {} THEN 0
    ELSE LET k == CHOOSE x \in keys : TRUE
         IN  d[k][field] + SumOver(d, keys \ {k}, field)

\* update_portfolio_totals (lines 125-129).
update_portfolio_totals(items) ==
    [total_unrealized_pnl |-> SumOver(items, DOMAIN items, "unrealized_pnl"),
     total_realized_pnl |-> SumOver(items, DOMAIN items, "realized_pnl"),
     total_market_value |-> SumOver(items, DOMAIN items, "market_value")]

\* The gateway delivers a portfolio update to on_portfolio_update, subscribed
\* in line 79: the entry is stored, the totals are recomputed (line 73) and
\* the details are printed (line 76; averageCost is not 0 in PortfolioItems).
MonitorPortfolioUpdate ==
    /\ prog = "monitor"
    /\ connected
    /\ "updatePortfolioEvent:on_portfolio_update" \in handlers
    /\ portfolioUpdates < MaxPortfolioUpdates
    /\ \E portfolio_item \in PortfolioItems :
          LET items == on_portfolio_update(portfolio_items, portfolio_item)
              totals == update_portfolio_totals(items)
          IN  /\ portfolio_items' = items
              /\ total_unrealized_pnl' = totals.total_unrealized_pnl
              /\ total_realized_pnl' = totals.total_realized_pnl
              /\ total_market_value' = totals.total_market_value
              /\ lastUpdate' = Put(lastUpdate, portfolio_item.contract.conId,
                                   PortfolioEntry(portfolio_item))
    /\ portfolioUpdates' = portfolioUpdates + 1
    /\ UNCHANGED <<prog, pc, connected, positions, positionsEnd, handlers,
                   beginning_balance, action_taken, loss_threshold, account_balance,
                   pnl, calls, liquidations, pnlEvents, connectFailed, gateSeen,
                   earlyEval, evaluations, interrupted,
                   furtherCalls>>

\* Lines 185-190: KeyboardInterrupt inside the try block; finally disconnects.
MonitorKeyboardInterrupt ==
    /\ prog = "monitor"
    /\ pc \in {"m_setup", "m_on_pnl_update", "m_subscribe", "m_ib_run"}
    /\ calls' = calls \o <<"disconnect">>
    /\ connected' = FALSE
    /\ pc' = "done"
    /\ interrupted' = TRUE
    /\ UNCHANGED <<prog, positions, positionsEnd, handlers, beginning_balance,
                   action_taken, loss_threshold, account_balance, pnl,
                   liquidations, pnlEvents, connectFailed, gateSeen, earlyEval,
                   evaluations, portfolioVars, furtherCalls>>

-----------------------------------------------------------------------------
(* SimplePnLStrategy.run, step by step.                                    *)

\* Line 42, connect_to_ib() (lines 65-73): ib.connect raising is logged in
\* the except clause, which neither raises nor exits; run() goes on.
connect_to_ib(ok) == "s_reqAllOpenOrders"

StrategyConnect ==
    /\ prog = "strategy"
    /\ pc = "connect"
    /\ \E ok \in BOOLEAN :
          /\ connected' = ok
          /\ connectFailed' = ~ok
          /\ pc' = connect_to_ib(ok)
    /\ calls' = calls \o <<"connect">>
    /\ UNCHANGED <<prog, positions, positionsEnd, handlers, beginning_balance,
                   action_taken, loss_threshold, account_balance, pnl,
                   liquidations, pnlEvents, gateSeen, earlyEval,
                   evaluations, interrupted, portfolioVars, furtherCalls>>

\* Line 45, ib.reqAllOpenOrdersAsync().  Nothing in run() checks the session
\* first; on a session that is not up the client may raise, and nothing in
\* run() catches that.
StrategyReqAllOpenOrders ==
    /\ prog = "strategy"
    /\ pc = "s_reqAllOpenOrders"
    /\ calls' = calls \o <<"reqAllOpenOrders">>
    /\ \E raises \in BOOLEAN :
          pc' = IF raises /\ ~connected THEN "crashed" ELSE "s_subscribe"
    /\ UNCHANGED <<prog, connected, positions, positionsEnd, handlers,
                   beginning_balance, action_taken, loss_threshold, account_balance,
                   pnl, liquidations, pnlEvents, connectFailed, gateSeen, earlyEval,
                   evaluations, interrupted, portfolioVars, furtherCalls>>

\* Line 48, subscribe_to_events() (lines 75-91).
StrategySubscribe ==
    /\ prog = "strategy"
    /\ pc = "s_subscribe"
    /\ handlers' = handlers \cup
          {"newOrderEvent:on_new_order", "orderModifyEvent:on_order_modify",
           "cancelOrderEvent:on_cancel_order", "openOrderEvent:on_open_order",
           "orderStatusEvent:on_order_status"}
    /\ calls' = calls \o <<"subscribe">>
    /\ pc' = "s_wait"
    /\ UNCHANGED <<prog, connected, positions, positionsEnd, beginning_balance,
                   action_taken, loss_threshold, account_balance, pnl,
                   liquidations, pnlEvents, connectFailed, gateSeen, earlyEval,
                   evaluations, interrupted, portfolioVars, furtherCalls>>

\* Line 51, wait_for_initial_position() (lines 108-113), one turn of the
\* loop: query the positions; sleep and stay when there are none.  The
\* history keeps one entry for a run of consecutive queries.
wait_for_initial_position(snap) == IF snap = <<>> THEN "s_wait" ELSE "s_request_pnl"

StrategyWait ==
    /\ prog = "strategy"
    /\ pc = "s_wait"
    /\ calls' = AppendOnce(calls, "positions")
    /\ pc' = wait_for_initial_position(positions)
    /\ UNCHANGED <<prog, connected, positions, positionsEnd, handlers,
                   beginning_balance, action_taken, loss_threshold, account_balance,
                   pnl, liquidations, pnlEvents, connectFailed, gateSeen, earlyEval,
                   evaluations, interrupted, portfolioVars, furtherCalls>>

\* Line 54, request_pnl_updates() (lines 115-123): managedAccounts()[0],
\* reqPnL and the subscription of on_pnl; an exception is logged.
StrategyRequestPnl ==
    /\ prog = "strategy"
    /\ pc = "s_request_pnl"
    /\ \E ok \in BOOLEAN :
          /\ handlers' = IF ok THEN handlers \cup {"pnlEvent:on_pnl"} ELSE handlers
          /\ calls' = IF ok THEN calls \o <<"reqPnL", "subscribe">> ELSE calls
    /\ pc' = "s_ib_run"
    /\ UNCHANGED <<prog, connected, positions, positionsEnd, beginning_balance,
                   action_taken, loss_threshold, account_balance, pnl,
                   liquidations, pnlEvents, connectFailed, gateSeen, earlyEval,
                   evaluations, interrupted, portfolioVars, furtherCalls>>

\* on_pnl (lines 125-133) as a function of its inputs: the reading, and the
\* positions whose POST raises.  [pnl, calls, liquidations, disconnect].
on_pnl(thr, snap, reading, failed) ==
    IF check_loss_threshold(Some(reading), thr)
    THEN LET r == close_all_positions(snap, failed) IN
         [pnl |-> Some(reading),
          calls |-> <<"evaluate", "breach">> \o LoopCalls(r, "post")
                    \o <<"disconnect">>,
          liquidations |-> << Liquidation(snap, r) >>,
          disconnect |-> TRUE]
    ELSE [pnl |-> Some(reading), calls |-> <<"evaluate">>,
          liquidations |-> <<>>, disconnect |-> FALSE]

\* Line 59, ib.run(): a PnL event is delivered to on_pnl.
StrategyOnPnl ==
    /\ prog = "strategy"
    /\ pc = "s_ib_run"
    /\ connected
    /\ "pnlEvent:on_pnl" \in handlers
    /\ pnlEvents < MaxPnlEvents
    /\ \E reading \in Readings, failed \in SUBSET (1..Len(positions)) :
          LET r == on_pnl(loss_threshold, positions, reading, failed) IN
          /\ pnl' = r.pnl
          /\ calls' = calls \o r.calls
          /\ liquidations' = liquidations \o r.liquidations
          /\ connected' = IF r.disconnect THEN FALSE ELSE connected
    /\ pnlEvents' = pnlEvents + 1
    /\ earlyEval' = (earlyEval \/ ~Ready)
    /\ UNCHANGED <<prog, pc, positions, positionsEnd, handlers, beginning_balance,
                   action_taken, loss_threshold, account_balance, connectFailed,
                   gateSeen,
                   evaluations, interrupted, portfolioVars, furtherCalls>>

\* KeyboardInterrupt while run() (lines 38-59) is past connect_to_ib: run()
\* has no try, except or finally, so the interrupt leaves run() and ends the
\* process; ib.disconnect() is not called, the socket closes with the
\* process.
StrategyKeyboardInterrupt ==
    /\ prog = "strategy"
    /\ pc \in {"s_reqAllOpenOrders", "s_subscribe", "s_wait", "s_request_pnl",
               "s_ib_run"}
    /\ connected' = FALSE
    /\ pc' = "killed"
    /\ interrupted' = TRUE
    /\ UNCHANGED <<prog, positions, positionsEnd, handlers, beginning_balance,
                   action_taken, loss_threshold, account_balance, pnl, calls,
                   liquidations, pnlEvents, connectFailed, gateSeen, earlyEval,
                   evaluations, portfolioVars, furtherCalls>>

-----------------------------------------------------------------------------

Next ==
    \/ GatewayPositionUpdate
    \/ GatewayPositionEnd
    \/ MonitorConnect
    \/ MonitorSetup
    \/ MonitorOnPnlUpdate
    \/ MonitorSubscribe
    \/ MonitorPnlEvent
    \/ MonitorKeyboardInterrupt
    \/ StrategyConnect
    \/ StrategyReqAllOpenOrders
    \/ StrategySubscribe
    \/ StrategyWait
    \/ StrategyRequestPnl
    \/ StrategyOnPnl
    \/ StrategyKeyboardInterrupt

Spec == Init /\ [][Next]_vars

\* The monitor's run with the portfolio updates of the gateway.  Spec follows
\* the positions that the closing loops read and leaves portfolio_items,
\* which no decision of the monitor reads, at its initial value;
\* SpecPortfolio follows portfolio_items and leaves ib.positions() empty.
InitPortfolio == Init /\ prog = "monitor"

NextPortfolio ==
    \/ GatewayPositionEnd
    \/ MonitorConnect
    \/ MonitorSetup
    \/ MonitorOnPnlUpdate
    \/ MonitorSubscribe
    \/ MonitorPnlEvent
    \/ MonitorPortfolioUpdate
    \/ MonitorKeyboardInterrupt

SpecPortfolio == InitPortfolio /\ [][NextPortfolio]_vars

\* The monitor's run in which on_pnl_update() is also called again, the
\* position list arriving whole.
InitHandlers == Init /\ prog = "monitor"

NextHandlers ==
    \/ GatewayPositionSnapshot
    \/ MonitorConnect
    \/ MonitorSetup
    \/ MonitorOnPnlUpdate
    \/ MonitorSubscribe
    \/ MonitorPnlEvent
    \/ MonitorOnPnlUpdateAgain
    \/ MonitorKeyboardInterrupt

SpecHandlers == InitHandlers /\ [][NextHandlers]_vars

-----------------------------------------------------------------------------
(* Vocabulary of the properties.                                           *)

RECURSIVE NonZero(_)
NonZero(snap) ==
    IF snap = <<>> THEN <<>>
    ELSE (IF snap[1].position # 0 THEN <<snap[1]>> ELSE <<>>) \o NonZero(Tail(snap))

AttemptedSymbols(l) == {l.attempts[k].order.symbol : k \in 1..Len(l.attempts)}

LiquidationsWithOrders ==
    Cardinality({i \in 1..Len(liquidations) : liquidations[i].attempts # <<>>})

OrdersPlaced == \E i \in 1..Len(liquidations) : liquidations[i].attempts # <<>>

IsClosingCall(c) == c \in {"placeOrder", "post"}

\* The reading of the strategy's last PnL event breaches a limit of 1% of
\* the balance: 100 * dailyPnL[cents] <= -balance[cents].
LastReadingBreaches ==
    /\ Val(pnl).dailyPnL # NaN
    /\ 100 * Val(Val(pnl).dailyPnL) <= -(Val(account_balance) * 100)

-----------------------------------------------------------------------------
(* Properties.                                                              *)

\* C1: at most one liquidation sequence per run: at most one run of the
\* position-closing loop places closing orders, and the action flag, once
\* true, stays true.
C1_AtMostOneLiquidation ==
    [][LiquidationsWithOrders' <= 1 /\ (action_taken => action_taken')]_vars

\* C2: every PnL event delivered by the gateway makes the handler evaluate
\* the threshold policy, and an evaluation that reports a breach starts a
\* liquidation.
C2_EveryPnlEventEvaluated ==
    [][pnlEvents' = pnlEvents + 1 =>
          /\ Count(calls', "evaluate") = Count(calls, "evaluate") + 1
          /\ (Count(calls', "breach") > Count(calls, "breach")
                => Len(liquidations') > Len(liquidations))]_vars

\* C3: no closing order is placed and the action flag is not set unless the
\* threshold policy has reported a breach.
C3_NoActionWithoutBreach ==
    (OrdersPlaced \/ action_taken) => Count(calls, "breach") > 0

\* C4: in fixed-amount mode the threshold is minus 1% of the supplied
\* balance (balance 30,000 gives -300.00) and the policy reports a breach
\* exactly when dailyPnL <= threshold, equality included.
C4_FixedAmountBoundary ==
    prog = "strategy" =>
        /\ 100 * loss_threshold = -(Val(account_balance) * 100)
        /\ (account_balance = Some(30000) => loss_threshold = -30000)
        /\ (pnl # None => (Count(calls, "breach") = 1 <=> LastReadingBreaches))
        /\ (pnl = None => Count(calls, "breach") = 0)

\* C4 witness: balance 30,000, a reading of exactly -300.00, and the policy
\* has reported the breach.
C4_Witness ==
    /\ prog = "strategy"
    /\ account_balance = Some(30000)
    /\ pnl = Some([dailyPnL |-> Some(-30000)])
    /\ Count(calls, "breach") = 1

\* C5: a closing loop in which nothing fails emits exactly one closing
\* action per position of nonzero quantity, in the order of the snapshot,
\* and none for a position of quantity 0; an order is a market order, SELL
\* for a long and BUY for a short position, of the absolute quantity.
C5_OneClosingActionPerNonzeroPosition ==
    \A i \in 1..Len(liquidations) :
        LET l  == liquidations[i]
            nz == NonZero(l.snapshot)
        IN  (\A k \in 1..Len(l.attempts) : l.attempts[k].ok) =>
               /\ Len(l.attempts) = Len(nz)
               /\ \A k \in 1..Len(nz) :
                     LET o == l.attempts[k].order IN
                     /\ o.symbol = nz[k].symbol
                     /\ o.kind = "order" =>
                           /\ o.action = (IF nz[k].position > 0 THEN "SELL" ELSE "BUY")
                           /\ o.totalQuantity = Abs(nz[k].position)
                           /\ o.orderType = "MKT"

\* C6: a failed closing action is not retried and does not keep the loop
\* from attempting every other nonzero position of the snapshot.
C6_FailureDoesNotBlockRemaining ==
    \A i \in 1..Len(liquidations) :
        LET l == liquidations[i] IN
        /\ \A k \in 1..Len(l.snapshot) :
              l.snapshot[k].position # 0 => l.snapshot[k].symbol \in AttemptedSymbols(l)
        /\ Cardinality(AttemptedSymbols(l)) = Len(l.attempts)

\* C7: the policy is never evaluated, and no closing loop starts, before a
\* position or account-summary value exists and the position snapshot has
\* been received completely once.
C7_NoEvaluationBeforeReadiness == ~earlyEval

\* C8: every liquidation sequence issues exactly one cancel-all request,
\* after its last closing action and before the disconnect.
C8_OneCancelAllPerLiquidation ==
    OrdersPlaced =>
        /\ Count(calls, "reqGlobalCancel") = Len(liquidations)
        /\ \E i \in 1..Len(calls) :
              /\ calls[i] = "reqGlobalCancel"
              /\ \A j \in 1..Len(calls) :
                    /\ IsClosingCall(calls[j]) => j < i
                    /\ calls[j] = "disconnect" => j > i

\* C9: once a liquidation sequence has run the session is disconnected,
\* and nothing is evaluated or ordered after it: the closing loop ran once
\* and the disconnect is the last call.
C9_LiquidatingIsTerminal ==
    OrdersPlaced =>
        /\ ~connected
        /\ Len(liquidations) = 1
        /\ calls[Len(calls)] = "disconnect"

\* C10: after a failed connect the run has terminated, and it has
\* subscribed to no event, queried no position, evaluated nothing and
\* placed no order.
C10_ConnectionFailureIsFatal ==
    connectFailed =>
        /\ pc \in {"done", "crashed"}
        /\ \A c \in {"subscribe", "positions", "portfolio", "evaluate",
                     "placeOrder", "post"} : Count(calls, c) = 0

-----------------------------------------------------------------------------
(* Percent-of-equity mode.                                                 *)

\* The comment of line 6 gives the default of PNL_THRESHOLD as -5%: the
\* loss, in percent of the starting equity, at which the default breaches.
DefaultLimitPercent == 5

\* percentage_change <= -limit_percent, with limit_percent in percent.
BreachesAtPercent(cur, beg, limit_percent) ==
    (cur - beg) * 100 <= (0 - limit_percent) * beg

\* C11: in percent-of-equity mode the policy reports a breach exactly when
\* (current_equity - starting_equity) / starting_equity * 100 is at most
\* -limit_percent, limit_percent being the configured loss percent in
\* percent units: under the default configuration, documented as -5%, an
\* evaluation breaches at a 5% fall in equity and not at a smaller one.
C11_DefaultBreachesAtFivePercent ==
    \A i \in 1..Len(evaluations) :
        LET e == evaluations[i] IN
        e.loss_threshold = PNL_THRESHOLD =>
           (e.breached <=> BreachesAtPercent(e.current, e.beginning, DefaultLimitPercent))

-----------------------------------------------------------------------------
(* The end of the session.                                                 *)

\* ib.connect returned: a gateway session exists or has existed.
SessionExisted == Count(calls, "connect") > 0 /\ ~connectFailed

\* C12: the session is disconnected only after a closing loop was reached
\* or a stop signal (KeyboardInterrupt) was received, and whenever a stop
\* signal is received while a session exists the session is disconnected.
C12_DisconnectOnlyAfterLiquidationOrStop ==
    /\ (SessionExisted /\ Count(calls, "disconnect") > 0)
          => (liquidations # <<>> \/ interrupted)
    /\ (SessionExisted /\ interrupted) => Count(calls, "disconnect") > 0

-----------------------------------------------------------------------------
(* The portfolio snapshot.                                                 *)

\* C13: the snapshot holds exactly one entry per distinct contract
\* identifier seen so far, each entry is the most recent update for that
\* contract, and the totals are the sums over all distinct contracts.
C13_OneEntryPerContract ==
    /\ Cardinality(DOMAIN portfolio_items) = Cardinality(DOMAIN lastUpdate)
    /\ \A c \in Contracts :
          c.conId \in DOMAIN lastUpdate =>
             /\ c.symbol \in DOMAIN portfolio_items
             /\ portfolio_items[c.symbol] = lastUpdate[c.conId]
    /\ total_unrealized_pnl = SumOver(lastUpdate, DOMAIN lastUpdate, "unrealized_pnl")
    /\ total_realized_pnl = SumOver(lastUpdate, DOMAIN lastUpdate, "realized_pnl")
    /\ total_market_value = SumOver(lastUpdate, DOMAIN lastUpdate, "market_value")

-----------------------------------------------------------------------------
(* The starting-equity baseline.                                           *)

\* C14: the baseline is write-once: once beginning_balance holds a value no
\* step changes it, and every percentage change recorded so far was
\* measured against that value, the first net liquidation value fetched.
C14_BaselineWriteOnce ==
    [][ /\ beginning_balance # None => beginning_balance' = beginning_balance
        /\ \A i \in 1..Len(evaluations') :
              Some(evaluations'[i].beginning) = beginning_balance' ]_vars

\* The baseline is set, on_pnl_update has been called again and has computed
\* a second percentage, from a current equity that differs from the baseline.
C14_Witness ==
    /\ beginning_balance # None
    /\ furtherCalls > 0
    /\ Len(evaluations) = 2
    /\ evaluations[2].current # Val(beginning_balance)

-----------------------------------------------------------------------------
(* An account summary without a USD NetLiquidation value.                  *)

Reads(c) == Count(c, "accountSummary")

Missing(c) == Count(c, "noNetLiquidation")

\* C15: an evaluation all of whose account-summary reads find no USD
\* NetLiquidation value changes nothing: no order is placed, no closing
\* loop is entered, no percentage is computed, action_taken and
\* beginning_balance keep their values; and an evaluation that starts
\* without a baseline attempts the baseline fetch (it reads the account
\* summary for the baseline and for the current equity, or sets the baseline
\* and stops in the closing loop).
C15_NoNetLiquidationChangesNothing ==
    [][ /\ (Reads(calls') > Reads(calls)
            /\ Missing(calls') - Missing(calls) = Reads(calls') - Reads(calls))
           => /\ beginning_balance' = beginning_balance
              /\ action_taken' = action_taken
              /\ liquidations' = liquidations
              /\ evaluations' = evaluations
              /\ Count(calls', "placeOrder") = Count(calls, "placeOrder")
        /\ (Reads(calls') > Reads(calls) /\ beginning_balance = None)
           => (Reads(calls') = Reads(calls) + 2 \/ beginning_balance' # None) ]_vars

\* Two evaluations in a row found no value while positions were open: the
\* second one has fetched the baseline again, nothing was closed.
C15_Witness ==
    /\ furtherCalls = 1
    /\ Missing(calls) = 4
    /\ NonZero(positions) # <<>>
    /\ beginning_balance = None
    /\ ~action_taken
    /\ liquidations = <<>>

====
